---- MODULE Spec2Model ----
(***************************************************************************)
(* A model of package github (src/github/api.go): the GitHub client of     *)
(* Hermit.  Two specifications share the module:                           *)
(*   SpecURL  applies the pure function ProjectForURL to bounded URLs;     *)
(*   Spec     runs Repo, LatestRelease, Releases and Download for two      *)
(*            concurrent callers on one Client.                            *)
(* Strings are sequences of tokens, a token being an atomic substring.     *)
(***************************************************************************)
EXTENDS Integers, Sequences, FiniteSets, TLC

VARIABLES
    inp,        \* the components the URL under test is written from
    sourceURL,  \* ProjectForURL's argument: the URL as a token string
    project,    \* ProjectForURL's result (<<>> is the empty string)
    upc,        \* "off" | "input" | "done"
    token,      \* the argument New was called with
    client,     \* Client.client, the *http.Client held by the Client
    calls,      \* per caller: the call it is in (position, inputs, results)
    bodies,     \* per caller: every response body its calls received
    ncalls      \* calls started so far, by all callers

vars == <<inp, sourceURL, project, upc, token, client, calls, bodies, ncalls>>

urlVars == <<inp, sourceURL, project, upc>>

httpVars == <<token, client, calls, bodies, ncalls>>

\* Longest path, in segments, of a URL under test.
MaxSegs == 3

\* Calls started in one behaviour, over all callers.
MaxCalls == 2

(***************************************************************************)
(* Token strings                                                           *)
(***************************************************************************)

\* strings.Index on tokens: the first position of t in s, 0 when absent.
IndexOf(s, t) ==
    IF \E i \in 1..Len(s) : s[i] = t
    THEN CHOOSE i \in 1..Len(s) : s[i] = t /\ \A j \in 1..(i - 1) : s[j] # t
    ELSE 0

\* s[from:], 1-based.
From(s, from) == IF from > Len(s) THEN <<>> ELSE SubSeq(s, from, Len(s))

HasPrefix(s, p) == Len(s) >= Len(p) /\ SubSeq(s, 1, Len(p)) = p

Contains(s, t) == \E i \in 1..Len(s) : s[i] = t

RECURSIVE Split(_, _)
\* strings.Split(s, sep): the pieces of s between the separators, always at
\* least one piece (Split("", "/") is [""]).
Split(s, sep) ==
    LET i == IndexOf(s, sep) IN
    IF i = 0 THEN <<s>>
    ELSE <<SubSeq(s, 1, i - 1)>> \o Split(From(s, i + 1), sep)

RECURSIVE Join(_, _)
\* strings.Join(parts, sep).
Join(parts, sep) ==
    IF Len(parts) = 0 THEN <<>>
    ELSE IF Len(parts) = 1 THEN parts[1]
    ELSE parts[1] \o <<sep>> \o Join(Tail(parts), sep)

(***************************************************************************)
(* net/url.Parse, on token strings                                         *)
(***************************************************************************)

SchemeTokens == {"https:"}

HostTokens == {"github.com", "gitlab.com"}

PortTokens == {":443"}

UserTokens == {"u@"}

NameTokens == {"foo", "bar"}

\* "%2F" is an escaped "/", "%zz" is an invalid escape.
EscapeTokens == {"%2F", "%zz"}

\* url.getScheme: a leading scheme, then the rest.
getScheme(raw) ==
    IF Len(raw) > 0 /\ raw[1] \in SchemeTokens
    THEN [scheme |-> raw[1], rest |-> Tail(raw)]
    ELSE [scheme |-> "", rest |-> raw]

\* url.unescape for a path or a fragment: %2F becomes "/", an invalid
\* escape is an error.
unescape(s) ==
    IF Contains(s, "%zz") THEN [err |-> TRUE, s |-> <<>>]
    ELSE [err |-> FALSE,
          s |-> [i \in 1..Len(s) |-> IF s[i] = "%2F" THEN "/" ELSE s[i]]]

\* url.parseAuthority: the userinfo up to "@" is dropped from Host, the
\* port stays in Host; a percent-escape in the host is an error.
parseAuthority(authority) ==
    LET host == IF Len(authority) > 0 /\ authority[1] \in UserTokens
                THEN Tail(authority) ELSE authority
    IN  IF \E i \in 1..Len(host) : host[i] \in EscapeTokens
        THEN [err |-> TRUE, Host |-> <<>>]
        ELSE [err |-> FALSE, Host |-> host]

\* url.Parse: fragment cut at the first "#", scheme, query cut at the first
\* "?", an authority after "//", the path unescaped, the fragment unescaped.
Parse(raw) ==
    LET h        == IndexOf(raw, "#")
        u        == IF h = 0 THEN raw ELSE SubSeq(raw, 1, h - 1)
        frag     == IF h = 0 THEN <<>> ELSE From(raw, h + 1)
        sc       == getScheme(u)
        q        == IndexOf(sc.rest, "?")
        rest     == IF q = 0 THEN sc.rest ELSE SubSeq(sc.rest, 1, q - 1)
        failed   == [err |-> TRUE, Host |-> <<>>, Path |-> <<>>]
        opaque   == ~HasPrefix(rest, <<"/">>) /\ sc.scheme # ""
        colon    == /\ ~HasPrefix(rest, <<"/">>)
                    /\ sc.scheme = ""
                    /\ \E t \in PortTokens \cup SchemeTokens :
                          Contains(Split(rest, "/")[1], t)
        hasAuth  == /\ sc.scheme # "" \/ ~HasPrefix(rest, <<"/", "/", "/">>)
                    /\ HasPrefix(rest, <<"/", "/">>)
        afterSl  == From(rest, 3)
        s        == IndexOf(afterSl, "/")
        auth     == IF s = 0 THEN afterSl ELSE SubSeq(afterSl, 1, s - 1)
        pathRaw  == IF hasAuth
                    THEN (IF s = 0 THEN <<>> ELSE From(afterSl, s))
                    ELSE rest
        pa       == IF hasAuth THEN parseAuthority(auth)
                    ELSE [err |-> FALSE, Host |-> <<>>]
        path     == unescape(pathRaw)
    IN  IF opaque THEN
            (IF unescape(frag).err THEN failed
             ELSE [err |-> FALSE, Host |-> <<>>, Path |-> <<>>])
        ELSE IF colon \/ pa.err \/ path.err \/ unescape(frag).err THEN failed
        ELSE [err |-> FALSE, Host |-> pa.Host, Path |-> path.s]

(***************************************************************************)
(* ProjectForURL                                                           *)
(***************************************************************************)

\* A plausible slip: the owner/project pair taken one segment too early.
ProjectForURLOffByOne(url) ==
    LET u == Parse(url) IN
    IF u.err THEN <<>>
    ELSE IF u.Host # <<"github.com">> THEN <<>>
    ELSE LET parts == Split(u.Path, "/") IN
         IF Len(parts) < 3 THEN <<>>
         ELSE Join(SubSeq(parts, 1, 2), "/")

\* A plausible slip: the host is never compared.
ProjectForURLAnyHost(url) ==
    LET u == Parse(url) IN
    IF u.err THEN <<>>
    ELSE LET parts == Split(u.Path, "/") IN
         IF Len(parts) < 3 THEN <<>>
         ELSE Join(SubSeq(parts, 2, 3), "/")

\* Client.ProjectForURL: parts[1:3] of the path split on "/", joined by "/".
ProjectForURL(url) ==
    LET u == Parse(url) IN
    IF u.err THEN <<>>
    ELSE IF u.Host # <<"github.com">> THEN <<>>
    ELSE LET parts == Split(u.Path, "/") IN
         IF Len(parts) < 3 THEN <<>>
         ELSE Join(SubSeq(parts, 2, 3), "/")

(***************************************************************************)
(* The URLs under test                                                     *)
(***************************************************************************)

\* A path segment: a name, the empty segment, an escape.
Segments == NameTokens \cup EscapeTokens \cup {""}

SegSeqs == UNION {[1..n -> Segments] : n \in 0..MaxSegs}

Queries == {<<>>, <<"?", "/", "foo">>}

Fragments == {<<>>, <<"#", "/", "bar">>, <<"#", "%zz">>}

URLInputs ==
    [scheme : {"", "https:"}, auth : {TRUE}, user : {"", "u@"},
     host : HostTokens, port : {"", ":443"},
     segs : SegSeqs, query : Queries, frag : Fragments]
    \cup
    [scheme : {"", "https:"}, auth : {FALSE}, user : {""},
     host : {""}, port : {""},
     segs : SegSeqs, query : Queries, frag : Fragments]

Opt(t) == IF t = "" THEN <<>> ELSE <<t>>

RECURSIVE PathTokens(_)
\* The path "/seg1/seg2/...": every segment after a "/".
PathTokens(segs) ==
    IF Len(segs) = 0 THEN <<>>
    ELSE <<"/">> \o Opt(segs[1]) \o PathTokens(Tail(segs))

\* The URL string written from its components.
Format(i) ==
    Opt(i.scheme)
    \o (IF i.auth THEN <<"/", "/">> \o Opt(i.user) \o <<i.host>> \o Opt(i.port)
        ELSE <<>>)
    \o PathTokens(i.segs) \o i.query \o i.frag

NoInput ==
    [scheme |-> "", auth |-> FALSE, user |-> "", host |-> "", port |-> "",
     segs |-> <<>>, query |-> <<>>, frag |-> <<>>]

URLOff ==
    /\ inp = NoInput
    /\ sourceURL = <<>>
    /\ project = <<>>
    /\ upc = "off"

InitURLInput ==
    /\ inp \in URLInputs
    /\ sourceURL = Format(inp)
    /\ project = <<>>
    /\ upc = "input"

\* A call of ProjectForURL(sourceURL).
ProjectForURLCall ==
    /\ upc = "input"
    /\ project' = ProjectForURL(sourceURL)
    /\ upc' = "done"
    /\ UNCHANGED <<inp, sourceURL>>
    /\ UNCHANGED httpVars

(***************************************************************************)
(* Errors, requests, transports                                            *)
(***************************************************************************)

NoError == [kind |-> "nil"]

\* errors.WithStack(err).
WithStack(err) == [kind |-> "withStack", cause |-> err]

\* errors.Wrap(err, message).
Wrap(err, message) == [kind |-> "wrap", message |-> message, cause |-> err]

\* errors.Errorf("%s: GitHub API request failed with %s", url, status).
Errorf(url, status) ==
    [kind |-> "errorf",
     text |-> <<url, ": GitHub API request failed with ", status>>]

NoRequest == [kind |-> "nil"]

\* http.NewRequest(method, url, nil): fails when the URL does not parse.
NewRequest(method, url) ==
    IF Parse(url).err
    THEN [req |-> NoRequest, err |-> [kind |-> "parse", url |-> url]]
    ELSE [req |-> [kind |-> "request", Method |-> method, URL |-> url,
                   Header |-> {}],
          err |-> NoError]

\* http.Header.Clone: a copy with the same entries.
Clone(headers) == {h \in headers : TRUE}

\* Client.request: a GET request for url carrying a copy of headers.
request(url, headers) ==
    LET r == NewRequest("GET", url) IN
    IF r.err # NoError THEN [req |-> NoRequest, err |-> WithStack(r.err)]
    ELSE [req |-> [r.req EXCEPT !.Header = Clone(headers)], err |-> NoError]

\* A nil http.RoundTripper: http.Client then uses http.DefaultTransport.
NilTransport == [kind |-> "nil"]

\* http.DefaultClient.
DefaultClient == [Transport |-> NilTransport]

\* The transport that adds the credential derived from token to every
\* request passing through it.
TokenAuthenticatedTransport(base, tok) ==
    [kind |-> "tokenAuth", base |-> base, token |-> tok]

\* The request as it leaves through transport.
RoundTripRequest(transport, req) ==
    IF transport.kind = "tokenAuth"
    THEN [req EXCEPT !.Header = @ \cup {<<"Authorization", transport.token>>}]
    ELSE req

\* A plausible slip: the decorator is installed whatever the token.
NewAlwaysAuthenticated(tok) ==
    [Transport |-> TokenAuthenticatedTransport(NilTransport, tok)]

\* New(token).
New(tok) ==
    IF tok = "" THEN DefaultClient
    ELSE [Transport |-> TokenAuthenticatedTransport(NilTransport, tok)]

(***************************************************************************)
(* JSON values and encoding/json                                           *)
(***************************************************************************)

JStr(s) == [t |-> "string", s |-> s]

JNum == [t |-> "number"]

JNull == [t |-> "null"]

JObj(m) == [t |-> "object", m |-> m]

JArr(e) == [t |-> "array", e |-> e]

TString == [k |-> "string"]

TSlice(elem) == [k |-> "slice", elem |-> elem]

\* type Asset struct.
TAsset ==
    [k |-> "struct",
     fields |-> {[go |-> "Name", json |-> "name", ty |-> TString],
                 [go |-> "URL", json |-> "url", ty |-> TString]}]

\* type Release struct.
TRelease ==
    [k |-> "struct",
     fields |-> {[go |-> "TagName", json |-> "tag_name", ty |-> TString],
                 [go |-> "Assets", json |-> "assets", ty |-> TSlice(TAsset)]}]

\* type Repo struct.
TRepo ==
    [k |-> "struct",
     fields |-> {[go |-> "Description", json |-> "description", ty |-> TString],
                 [go |-> "Homepage", json |-> "homepage", ty |-> TString]}]

RECURSIVE Zero(_)
\* The zero value of a type (a nil slice is the empty sequence).
Zero(ty) ==
    IF ty.k = "string" THEN ""
    ELSE IF ty.k = "slice" THEN <<>>
    ELSE [g \in {f.go : f \in ty.fields} |->
            Zero((CHOOSE f \in ty.fields : f.go = g).ty)]

RECURSIVE Unmarshal(_, _, _)
\* json.Unmarshal of one value into cur of type ty: null changes nothing,
\* a value of the wrong kind is a type error that leaves its target alone,
\* unknown object keys are skipped, and after a type error in one field the
\* other fields are still stored.
Unmarshal(v, ty, cur) ==
    IF v.t = "null" THEN [val |-> cur, err |-> FALSE]
    ELSE IF ty.k = "string" THEN
        (IF v.t = "string" THEN [val |-> v.s, err |-> FALSE]
         ELSE [val |-> cur, err |-> TRUE])
    ELSE IF ty.k = "slice" THEN
        (IF v.t = "array"
         THEN LET es == [i \in 1..Len(v.e) |->
                           Unmarshal(v.e[i], ty.elem, Zero(ty.elem))]
              IN  [val |-> [i \in 1..Len(v.e) |-> es[i].val],
                   err |-> \E i \in 1..Len(v.e) : es[i].err]
         ELSE [val |-> cur, err |-> TRUE])
    ELSE
        (IF v.t = "object"
         THEN LET fld(g) == CHOOSE f \in ty.fields : f.go = g
                  has(g) == fld(g).json \in DOMAIN v.m
                  sub(g) == Unmarshal(v.m[fld(g).json], fld(g).ty, cur[g])
                  names  == {f.go : f \in ty.fields}
              IN  [val |-> [g \in names |->
                              IF has(g) THEN sub(g).val ELSE cur[g]],
                   err |-> \E g \in names : has(g) /\ sub(g).err]
         ELSE [val |-> cur, err |-> TRUE])

\* json.NewDecoder(body).Decode(dest): the next JSON value of the stream is
\* read whole, then unmarshalled; what follows it is not looked at.
Decode(body, ty, cur) ==
    IF body.syntax = "empty"
    THEN [val |-> cur, err |-> [kind |-> "EOF"]]
    ELSE IF body.syntax = "malformed"
    THEN [val |-> cur, err |-> [kind |-> "syntax"]]
    ELSE LET u == Unmarshal(body.value, ty, cur) IN
         [val |-> u.val,
          err |-> IF u.err THEN [kind |-> "unmarshalType"] ELSE NoError]

(***************************************************************************)
(* The network: what client.Do can come back with                          *)
(***************************************************************************)

NoOutcome == [kind |-> "none"]

\* client.Do failed: no response.
TransportFailure == [kind |-> "error", err |-> [kind |-> "transport"]]

\* Response.Status, the status line text for a code.
StatusText(code) == <<code, "reason">>

RepoJSON == JObj([description |-> JStr("d"), homepage |-> JStr("h")])

\* description has the wrong type: homepage is still stored.
RepoMistypedJSON == JObj([description |-> JNum, homepage |-> JStr("h")])

ReleaseJSON ==
    JObj([tag_name |-> JStr("v1"),
          assets |-> JArr(<<JObj([name |-> JStr("a"), url |-> JStr("u")])>>)])

ReleasesJSON == JArr(<<ReleaseJSON>>)

\* Bodies that hold one JSON value; the third has bytes after the value.
ValidBodies ==
    {[syntax |-> "ok", value |-> RepoJSON, trailing |-> FALSE],
     [syntax |-> "ok", value |-> ReleasesJSON, trailing |-> FALSE],
     [syntax |-> "ok", value |-> ReleaseJSON, trailing |-> TRUE]}

BodyContents ==
    ValidBodies
    \cup {[syntax |-> "ok", value |-> RepoMistypedJSON, trailing |-> FALSE],
          [syntax |-> "malformed"]}

\* The ends of the success range and their neighbours outside it.
EdgeStatusCodes == {199, 299, 300}

Response(sc, b) ==
    [kind |-> "response", StatusCode |-> sc, Status |-> StatusText(sc),
     Body |-> b]

\* Every body with status 200, and at the edges of the success range the
\* bodies that would decode into a Repo or a list of releases.
Responses ==
    {Response(200, b) : b \in BodyContents}
    \cup {Response(sc, b) : sc \in EdgeStatusCodes,
                            b \in {x \in ValidBodies : ~x.trailing}}

Outcomes == {TransportFailure} \cup Responses

NilResponse == [kind |-> "nil"]

(***************************************************************************)
(* The operations' inputs                                                  *)
(***************************************************************************)

Callers == {"c1", "c2"}

Tokens == {"", "secret"}

\* "owner/name" identifiers; the second does not parse once in a URL.
Repos == {<<"foo", "/", "bar">>, <<"%zz">>}

APIRoot == <<"https:", "/", "/", "api.github.com", "/", "repos", "/">>

Assets ==
    {[Name |-> "a",
      URL |-> <<"https:", "/", "/", "api.github.com", "/", "assets", "/", "1">>],
     [Name |-> "b", URL |-> <<"https:", "/", "/", "%zz">>]}

JSONOps == {"Repo", "LatestRelease", "Releases"}

\* The URL each operation builds from its argument.
URLOf(op, arg) ==
    IF op = "Repo" THEN APIRoot \o arg
    ELSE IF op = "LatestRelease"
    THEN APIRoot \o arg \o <<"/", "releases", "/", "latest">>
    ELSE IF op = "Releases" THEN APIRoot \o arg \o <<"/", "releases">>
    ELSE arg.URL

\* The type of the destination each JSON operation decodes into.
DestType(op) ==
    IF op = "Repo" THEN TRepo
    ELSE IF op = "LatestRelease" THEN TRelease
    ELSE TSlice(TRelease)

AcceptOctetStream == {<<"Accept", "application/octet-stream">>}

IdleCall ==
    [pc |-> "idle", op |-> "none", arg |-> <<>>, url |-> <<>>,
     req |-> NoRequest, sent |-> <<>>, outcome |-> NoOutcome,
     value |-> NilResponse, err |-> NoError, body |-> 0]

\* A response body: what the client did to it, whether the response was
\* handed to the caller, and whether the caller has closed it.
NewBody(op) ==
    [op |-> op, closes |-> 0, reads |-> 0, escaped |-> FALSE,
     callerClosed |-> FALSE]

(***************************************************************************)
(* decode                                                                  *)
(***************************************************************************)

\* A plausible slip: the body is decoded before the status is looked at.
decodeResponseDecodeFirst(url, ty, dest, o) ==
    IF o.kind = "error"
    THEN [err |-> Wrap(o.err, url), dest |-> dest, closes |-> 0, reads |-> 0]
    ELSE LET d == Decode(o.Body, ty, dest) IN
         IF o.StatusCode < 200 \/ o.StatusCode > 299
         THEN [err |-> Errorf(url, o.Status), dest |-> d.val,
               closes |-> 1, reads |-> 1]
         ELSE [err |-> IF d.err # NoError THEN Wrap(d.err, url) ELSE NoError,
               dest |-> d.val, closes |-> 1, reads |-> 1]

\* A plausible slip: a decode failure is dropped.
decodeResponseSwallow(url, ty, dest, o) ==
    IF o.kind = "error"
    THEN [err |-> Wrap(o.err, url), dest |-> dest, closes |-> 0, reads |-> 0]
    ELSE IF o.StatusCode < 200 \/ o.StatusCode > 299
    THEN [err |-> Errorf(url, o.Status), dest |-> dest,
          closes |-> 1, reads |-> 0]
    ELSE LET d == Decode(o.Body, ty, dest) IN
         [err |-> NoError, dest |-> d.val, closes |-> 1, reads |-> 1]

\* A plausible slip: the body is closed on the success path only.
decodeResponseLeak(url, ty, dest, o) ==
    IF o.kind = "error"
    THEN [err |-> Wrap(o.err, url), dest |-> dest, closes |-> 0, reads |-> 0]
    ELSE IF o.StatusCode < 200 \/ o.StatusCode > 299
    THEN [err |-> Errorf(url, o.Status), dest |-> dest,
          closes |-> 0, reads |-> 0]
    ELSE LET d == Decode(o.Body, ty, dest) IN
         IF d.err # NoError
         THEN [err |-> Wrap(d.err, url), dest |-> d.val,
               closes |-> 0, reads |-> 1]
         ELSE [err |-> NoError, dest |-> d.val, closes |-> 1, reads |-> 1]

\* decode from the return of client.Do on: the error it returns, what dest
\* holds then, and how often it closed and read the body.
decodeResponse(url, ty, dest, o) ==
    IF o.kind = "error"
    THEN [err |-> Wrap(o.err, url), dest |-> dest, closes |-> 0, reads |-> 0]
    ELSE IF o.StatusCode < 200 \/ o.StatusCode > 299
    THEN [err |-> Errorf(url, o.Status), dest |-> dest,
          closes |-> 1, reads |-> 0]
    ELSE LET d == Decode(o.Body, ty, dest) IN
         IF d.err # NoError
         THEN [err |-> Wrap(d.err, url), dest |-> d.val,
               closes |-> 1, reads |-> 1]
         ELSE [err |-> NoError, dest |-> d.val, closes |-> 1, reads |-> 1]

\* decode up to client.Do, for a fresh dest: the request is built and, when
\* that worked, handed to the client, which sends it through its transport.
decodeStart(c, op, arg) ==
    LET url == URLOf(op, arg)
        r   == request(url, {})
    IN  /\ calls[c].pc = "idle"
        /\ ncalls < MaxCalls
        /\ calls' = [calls EXCEPT ![c] =
              IF r.err # NoError
              THEN [IdleCall EXCEPT !.pc = "returned", !.op = op, !.arg = arg,
                       !.url = url, !.value = Zero(DestType(op)),
                       !.err = Wrap(r.err, url)]
              ELSE [IdleCall EXCEPT !.pc = "inflight", !.op = op, !.arg = arg,
                       !.url = url, !.req = r.req,
                       !.value = Zero(DestType(op)),
                       !.sent = <<RoundTripRequest(client.Transport, r.req)>>]]
        /\ ncalls' = ncalls + 1
        /\ UNCHANGED <<token, client, bodies>>
        /\ UNCHANGED urlVars

\* Client.Repo(repo).
Repo(c, repo) == decodeStart(c, "Repo", repo)

\* Client.LatestRelease(repo).
LatestRelease(c, repo) == decodeStart(c, "LatestRelease", repo)

\* Client.Releases(repo).
Releases(c, repo) == decodeStart(c, "Releases", repo)

\* A plausible slip: a transport failure is answered by sending again.
decodeReturnRetry(c, o) ==
    LET call == calls[c]
        d    == decodeResponse(call.url, DestType(call.op), call.value, o)
    IN  /\ call.pc = "inflight"
        /\ call.op \in JSONOps
        /\ IF o.kind = "error" /\ Len(call.sent) < 2
           THEN /\ calls' = [calls EXCEPT ![c].sent =
                               Append(@, RoundTripRequest(client.Transport,
                                                          call.req))]
                /\ UNCHANGED bodies
           ELSE /\ calls' = [calls EXCEPT ![c].pc = "returned",
                               ![c].outcome = o, ![c].value = d.dest,
                               ![c].err = d.err,
                               ![c].body = IF o.kind = "response"
                                           THEN Len(bodies[c]) + 1 ELSE 0]
                /\ bodies' = [bodies EXCEPT ![c] =
                               IF o.kind = "response"
                               THEN Append(@, [NewBody(call.op) EXCEPT
                                                 !.closes = d.closes,
                                                 !.reads = d.reads])
                               ELSE @]
        /\ UNCHANGED <<token, client, ncalls>>
        /\ UNCHANGED urlVars

\* A plausible slip: one destination shared by the Client's calls, so a
\* call returns what another call decoded.
decodeReturnShared(c, o) ==
    LET call  == calls[c]
        d     == decodeResponse(call.url, DestType(call.op), call.value, o)
        other == {x \in Callers \ {c} :
                    calls[x].pc = "returned" /\ calls[x].op = call.op}
    IN  /\ call.pc = "inflight"
        /\ call.op \in JSONOps
        /\ calls' = [calls EXCEPT ![c].pc = "returned", ![c].outcome = o,
                       ![c].value = IF other # {}
                                    THEN calls[CHOOSE x \in other : TRUE].value
                                    ELSE d.dest,
                       ![c].err = d.err,
                       ![c].body = IF o.kind = "response"
                                   THEN Len(bodies[c]) + 1 ELSE 0]
        /\ bodies' = [bodies EXCEPT ![c] =
                       IF o.kind = "response"
                       THEN Append(@, [NewBody(call.op) EXCEPT
                                         !.closes = d.closes,
                                         !.reads = d.reads])
                       ELSE @]
        /\ UNCHANGED <<token, client, ncalls>>
        /\ UNCHANGED urlVars

\* client.Do comes back with o, decode runs to its end and the operation
\* returns dest and decode's error.
decodeReturn(c, o) ==
    LET call == calls[c]
        d    == decodeResponse(call.url, DestType(call.op), call.value, o)
    IN  /\ call.pc = "inflight"
        /\ call.op \in JSONOps
        /\ calls' = [calls EXCEPT ![c].pc = "returned", ![c].outcome = o,
                       ![c].value = d.dest, ![c].err = d.err,
                       ![c].body = IF o.kind = "response"
                                   THEN Len(bodies[c]) + 1 ELSE 0]
        /\ bodies' = [bodies EXCEPT ![c] =
                       IF o.kind = "response"
                       THEN Append(@, [NewBody(call.op) EXCEPT
                                         !.closes = d.closes,
                                         !.reads = d.reads])
                       ELSE @]
        /\ UNCHANGED <<token, client, ncalls>>
        /\ UNCHANGED urlVars

(***************************************************************************)
(* Download                                                                *)
(***************************************************************************)

\* Client.Download(asset) up to client.Do.
Download(c, asset) ==
    LET r == request(asset.URL, AcceptOctetStream)
    IN  /\ calls[c].pc = "idle"
        /\ ncalls < MaxCalls
        /\ calls' = [calls EXCEPT ![c] =
              IF r.err # NoError
              THEN [IdleCall EXCEPT !.pc = "returned", !.op = "Download",
                       !.arg = asset, !.url = asset.URL,
                       !.value = NilResponse, !.err = WithStack(r.err)]
              ELSE [IdleCall EXCEPT !.pc = "inflight", !.op = "Download",
                       !.arg = asset, !.url = asset.URL, !.req = r.req,
                       !.sent = <<RoundTripRequest(client.Transport, r.req)>>]]
        /\ ncalls' = ncalls + 1
        /\ UNCHANGED <<token, client, bodies>>
        /\ UNCHANGED urlVars

\* A plausible slip: Download treats a non-2xx answer as decode does,
\* closing the body and returning an error.
DownloadReturnChecked(c, o) ==
    LET call == calls[c]
        bad  == o.kind = "response" /\ (o.StatusCode < 200 \/ o.StatusCode > 299)
    IN  /\ call.pc = "inflight"
        /\ call.op = "Download"
        /\ calls' = [calls EXCEPT ![c].pc = "returned", ![c].outcome = o,
                       ![c].value = IF o.kind = "response" /\ ~bad
                                    THEN o ELSE NilResponse,
                       ![c].err = IF o.kind = "error" THEN o.err
                                  ELSE IF bad THEN Errorf(call.url, o.Status)
                                  ELSE NoError,
                       ![c].body = IF o.kind = "response"
                                   THEN Len(bodies[c]) + 1 ELSE 0]
        /\ bodies' = [bodies EXCEPT ![c] =
                       IF o.kind = "response"
                       THEN Append(@, [NewBody("Download") EXCEPT
                                         !.escaped = ~bad,
                                         !.closes = IF bad THEN 1 ELSE 0])
                       ELSE @]
        /\ UNCHANGED <<token, client, ncalls>>
        /\ UNCHANGED urlVars

\* client.Do comes back with o and Download returns it as it is.
DownloadReturn(c, o) ==
    LET call == calls[c]
    IN  /\ call.pc = "inflight"
        /\ call.op = "Download"
        /\ calls' = [calls EXCEPT ![c].pc = "returned", ![c].outcome = o,
                       ![c].value = IF o.kind = "response"
                                    THEN o ELSE NilResponse,
                       ![c].err = IF o.kind = "error" THEN o.err ELSE NoError,
                       ![c].body = IF o.kind = "response"
                                   THEN Len(bodies[c]) + 1 ELSE 0]
        /\ bodies' = [bodies EXCEPT ![c] =
                       IF o.kind = "response"
                       THEN Append(@, [NewBody("Download") EXCEPT
                                         !.escaped = TRUE])
                       ELSE @]
        /\ UNCHANGED <<token, client, ncalls>>
        /\ UNCHANGED urlVars

(***************************************************************************)
(* The callers                                                             *)
(***************************************************************************)

\* The caller of Download reads the body it was handed and closes it.
CallerClose(c) ==
    /\ calls[c].pc = "returned"
    /\ calls[c].op = "Download"
    /\ calls[c].body > 0
    /\ ~bodies[c][calls[c].body].callerClosed
    /\ bodies' = [bodies EXCEPT ![c][calls[c].body].callerClosed = TRUE]
    /\ UNCHANGED <<token, client, calls, ncalls>>
    /\ UNCHANGED urlVars

\* The caller has taken the call's results and may call again.
Finish(c) ==
    /\ calls[c].pc = "returned"
    /\ calls' = [calls EXCEPT ![c] = IdleCall]
    /\ UNCHANGED <<token, client, bodies, ncalls>>
    /\ UNCHANGED urlVars

(***************************************************************************)
(* Specifications                                                          *)
(***************************************************************************)

HTTPOff ==
    /\ token = ""
    /\ client = New("")
    /\ calls = [c \in Callers |-> IdleCall]
    /\ bodies = [c \in Callers |-> <<>>]
    /\ ncalls = 0

\* The Client as New(token) returns it, no call made yet.
InitClient ==
    /\ token \in Tokens
    /\ client = New(token)
    /\ calls = [c \in Callers |-> IdleCall]
    /\ bodies = [c \in Callers |-> <<>>]
    /\ ncalls = 0

Init == InitClient /\ URLOff

Next ==
    \/ \E c \in Callers, repo \in Repos : Repo(c, repo)
    \/ \E c \in Callers, repo \in Repos : LatestRelease(c, repo)
    \/ \E c \in Callers, repo \in Repos : Releases(c, repo)
    \/ \E c \in Callers, asset \in Assets : Download(c, asset)
    \/ \E c \in Callers, o \in Outcomes : decodeReturn(c, o)
    \/ \E c \in Callers, o \in Outcomes : DownloadReturn(c, o)
    \/ \E c \in Callers : CallerClose(c)
    \/ \E c \in Callers : Finish(c)

Spec == Init /\ [][Next]_vars

InitURL == InitURLInput /\ HTTPOff

NextURL == ProjectForURLCall

SpecURL == InitURL /\ [][NextURL]_vars

(***************************************************************************)
(* Properties of Repo, LatestRelease, Releases and Download (Spec)         *)
(***************************************************************************)

Returned(c) == calls[c].pc = "returned"

Success(code) == code >= 200 /\ code <= 299

\* The call's request could not be built.
ConstructionFailed(call) == Parse(URLOf(call.op, call.arg)).err

\* What a JSON operation's own response decodes to, from a fresh dest.
OwnDecode(call) ==
    Decode(call.outcome.Body, DestType(call.op), Zero(DestType(call.op)))

\* The call got a 2xx response whose body decoded without error.
Decoded(call) ==
    /\ call.outcome.kind = "response"
    /\ Success(call.outcome.StatusCode)
    /\ OwnDecode(call).err = NoError

\* C1: a returned Repo, LatestRelease or Releases call has a nil error only
\* if it received a response with status in [200, 299] whose body decoded
\* without error, the returned value then being what that body decodes to;
\* in every other outcome (construction failure, transport failure, non-2xx
\* status, decode failure) its error is non-nil.
C1_NilErrorOnlyWhenDecoded ==
    \A c \in Callers :
        Returned(c) /\ calls[c].op \in JSONOps =>
            /\ calls[c].err = NoError =>
                  /\ Decoded(calls[c])
                  /\ calls[c].outcome.Body.syntax = "ok"
                  /\ calls[c].value = OwnDecode(calls[c]).val
            /\ ~Decoded(calls[c]) => calls[c].err # NoError

\* Both sides of C1 happen: a Repo call that returned the decoded repository
\* with a nil error, and one that returned a half-stored value with an error.
C1_Witness ==
    /\ Returned("c1") /\ calls["c1"].op = "Repo"
    /\ calls["c1"].err = NoError
    /\ calls["c1"].value = [Description |-> "d", Homepage |-> "h"]
    /\ Returned("c2") /\ calls["c2"].op = "Repo"
    /\ calls["c2"].outcome.kind = "response"
    /\ Success(calls["c2"].outcome.StatusCode)
    /\ calls["c2"].value = [Description |-> "", Homepage |-> "h"]
    /\ calls["c2"].err # NoError

\* C2: a returned Repo, LatestRelease or Releases call whose response has a
\* status outside [200, 299] returns the "API request failed" error made of
\* the requested URL and the response's status text, has not read the body,
\* and leaves the destination as it was before the call.
C2_StatusFailureLeavesDest ==
    \A c \in Callers :
        /\ Returned(c) /\ calls[c].op \in JSONOps
        /\ calls[c].outcome.kind = "response"
        /\ ~Success(calls[c].outcome.StatusCode)
        => /\ calls[c].err.kind = "errorf"
           /\ calls[c].err.text[1] = URLOf(calls[c].op, calls[c].arg)
           /\ calls[c].err.text[2] = ": GitHub API request failed with "
           /\ calls[c].err.text[3] = calls[c].outcome.Status
           /\ calls[c].value = Zero(DestType(calls[c].op))
           /\ bodies[c][calls[c].body].reads = 0

\* A Repo call answered 300 with a body that would have decoded.
C2_Witness ==
    \E c \in Callers :
        /\ Returned(c) /\ calls[c].op = "Repo"
        /\ calls[c].outcome.kind = "response"
        /\ calls[c].outcome.StatusCode = 300
        /\ calls[c].outcome.Body.syntax = "ok"
        /\ calls[c].outcome.Body.value = RepoJSON
        /\ calls[c].err.kind = "errorf"
        /\ calls[c].value = [Description |-> "", Homepage |-> ""]

HasAuthorization(req) == \E h \in req.Header : h[1] = "Authorization"

\* C4: with a non-empty token the Client holds the token-authenticated
\* transport and every request it sends carries the credential; with an
\* empty token it holds the default client and no request it sends carries
\* one; no operation puts the credential on the request it builds, and the
\* held client stays the one chosen by New.
C4_AuthenticationFollowsToken ==
    /\ token # "" =>
          /\ client.Transport.kind = "tokenAuth"
          /\ client.Transport.token = token
          /\ \A c \in Callers : \A i \in 1..Len(calls[c].sent) :
                <<"Authorization", token>> \in calls[c].sent[i].Header
    /\ token = "" =>
          /\ client = DefaultClient
          /\ \A c \in Callers : \A i \in 1..Len(calls[c].sent) :
                ~HasAuthorization(calls[c].sent[i])
    /\ \A c \in Callers :
          calls[c].req # NoRequest => ~HasAuthorization(calls[c].req)

\* A Download of a Client made with a token: the request it built has no
\* credential, the request that left through the transport has it.
C4_Witness ==
    \E c \in Callers :
        /\ token = "secret"
        /\ calls[c].op = "Download"
        /\ Len(calls[c].sent) = 1
        /\ HasAuthorization(calls[c].sent[1])
        /\ ~HasAuthorization(calls[c].req)

Failed(call) ==
    \/ ConstructionFailed(call)
    \/ call.outcome = TransportFailure
    \/ call.op \in JSONOps /\ ~Decoded(call)

OwnResult(call) ==
    IF ConstructionFailed(call)
    THEN IF call.op = "Download"
         THEN [value |-> NilResponse,
               err |-> WithStack(WithStack([kind |-> "parse", url |-> call.url]))]
         ELSE [value |-> Zero(DestType(call.op)),
               err |-> Wrap(WithStack([kind |-> "parse", url |-> call.url]),
                            call.url)]
    ELSE IF call.op = "Download"
    THEN [value |-> IF call.outcome.kind = "response" THEN call.outcome
                    ELSE NilResponse,
          err |-> IF call.outcome.kind = "error" THEN call.outcome.err
                  ELSE NoError]
    ELSE LET d == decodeResponse(URLOf(call.op, call.arg), DestType(call.op),
                                 Zero(DestType(call.op)), call.outcome)
         IN  [value |-> d.dest, err |-> d.err]

\* C9: under any interleaving of the callers' calls, what a call returns is
\* determined by its own request and response; each call has its own
\* request and headers; and the Client's held client is the one New made.
C9_NoCrossCallMixing ==
    /\ client = New(token)
    /\ \A c \in Callers :
          /\ calls[c].req # NoRequest =>
                /\ calls[c].req.URL = URLOf(calls[c].op, calls[c].arg)
                /\ calls[c].req.Header =
                      IF calls[c].op = "Download" THEN AcceptOctetStream
                      ELSE {}
          /\ Returned(c) =>
                /\ calls[c].value = OwnResult(calls[c]).value
                /\ calls[c].err = OwnResult(calls[c]).err

\* Two overlapping Repo calls that were answered differently and returned
\* different results.
C9_Witness ==
    /\ Returned("c1") /\ Returned("c2")
    /\ calls["c1"].op = "Repo" /\ calls["c2"].op = "Repo"
    /\ calls["c1"].outcome.kind = "response"
    /\ calls["c2"].outcome.kind = "response"
    /\ calls["c1"].err = NoError /\ calls["c2"].err # NoError
    /\ calls["c1"].value # calls["c2"].value

\* C10: every body of a response received by Repo, LatestRelease or
\* Releases has been closed exactly once by the time the call has returned,
\* on the success, status-failure and decode-failure paths, and is not
\* handed to the caller; a call that received no response touched no body.
C10_BodyClosedOnce ==
    \A c \in Callers :
        /\ \A i \in 1..Len(bodies[c]) :
              bodies[c][i].op \in JSONOps =>
                  bodies[c][i].closes = 1 /\ ~bodies[c][i].escaped
        /\ Returned(c) /\ calls[c].op \in JSONOps =>
              /\ calls[c].outcome.kind = "response" <=> calls[c].body > 0
              /\ calls[c].body > 0 => calls[c].body = Len(bodies[c])
              /\ calls[c].value # calls[c].outcome

\* Bodies closed on the status-failure and on the decode-failure path, and
\* a call that failed in the transport and has no body.
C10_Witness ==
    /\ Returned("c1") /\ calls["c1"].op \in JSONOps
    /\ Len(bodies["c1"]) = 2
    /\ calls["c1"].outcome.kind = "response"
    /\ ~Success(calls["c1"].outcome.StatusCode)
    /\ bodies["c1"][2].closes = 1
    /\ bodies["c1"][1].op \in JSONOps /\ bodies["c1"][1].reads = 1
    /\ bodies["c1"][1].closes = 1

(***************************************************************************)
(* Properties of ProjectForURL (SpecURL)                                   *)
(***************************************************************************)

Done == upc = "done"

\* No component of the URL is an invalid escape.
WellFormed(i) ==
    /\ \A k \in 1..Len(i.segs) : i.segs[k] # "%zz"
    /\ ~Contains(i.frag, "%zz")

\* The URL is https://github.com/... with nothing but github.com as host.
OnGitHub(i) ==
    /\ i.scheme = "https:"
    /\ i.auth
    /\ i.host = "github.com"
    /\ i.port = ""

\* C5: for a well-formed https://github.com/owner/project[...] the result
\* is owner, "/", project, whatever path segments, query or fragment follow.
C5_OwnerAndProject ==
    /\ Done
    /\ OnGitHub(inp) /\ WellFormed(inp)
    /\ Len(inp.segs) >= 2
    /\ inp.segs[1] \in NameTokens /\ inp.segs[2] \in NameTokens
    => project = <<inp.segs[1], "/", inp.segs[2]>>

\* https://github.com/foo/bar/<segment>?/foo#/bar gives foo/bar.
C5_Witness ==
    /\ Done
    /\ OnGitHub(inp) /\ WellFormed(inp)
    /\ Len(inp.segs) = 3 /\ inp.segs[1] = "foo" /\ inp.segs[2] = "bar"
    /\ inp.query # <<>> /\ inp.frag # <<>>
    /\ project = <<"foo", "/", "bar">>

\* C6: for a URL whose host is not github.com, whatever its path, and for a
\* string that does not parse as a URL, the result is the empty string;
\* ProjectForURL returns only a string and starts no request.
C6_ForeignHostOrUnparsable ==
    /\ Done /\ (~inp.auth \/ inp.host # "github.com") => project = <<>>
    /\ Done /\ ~WellFormed(inp) => project = <<>>
    /\ Done /\ Parse(sourceURL).err => project = <<>>
    /\ ncalls = 0
    /\ \A c \in Callers : calls[c].pc = "idle" /\ calls[c].sent = <<>>

\* https://gitlab.com/foo/bar gives the empty string.
C6_Witness ==
    /\ Done
    /\ inp.scheme = "https:" /\ inp.auth /\ inp.host = "gitlab.com"
    /\ inp.port = "" /\ inp.segs = <<"foo", "bar">> /\ WellFormed(inp)
    /\ project = <<>>

\* The paths C7 names: empty, "/", "/name" and "/name/".
NoOwnerProjectPair(segs) ==
    \/ segs = <<>>
    \/ segs = <<"">>
    \/ Len(segs) = 1 /\ segs[1] \in NameTokens
    \/ Len(segs) = 2 /\ segs[1] \in NameTokens /\ segs[2] = ""

\* C7: for a URL on github.com whose path holds fewer than two path
\* segments, no owner and project pair (/, /foo, /foo/, the empty path),
\* the result is the empty string.
C7_NoPairGivesEmpty ==
    /\ Done
    /\ OnGitHub(inp) /\ WellFormed(inp)
    /\ inp.user = "" /\ inp.query = <<>> /\ inp.frag = <<>>
    /\ NoOwnerProjectPair(inp.segs)
    => project = <<>>

====
